---- MODULE Spec2Model ----
(***************************************************************************)
(* Typed, reference-counted wrappers (Object<T>) over the identifiers of   *)
(* the native HDF5 registry: construction through the capability dispatch  *)
(* of Object::from_id, incref / decref / drop, refcount / is_valid / id,   *)
(* the classification of datatypes, the datatypes of the native scalar    *)
(* types, dataspaces and the rendering of objects.                         *)
(***************************************************************************)
EXTENDS Integers, FiniteSets, Sequences, TLC

VARIABLES
    registry,   \* the native identifier registry: id -> [ref, type, cls]
    objects,    \* the Object<T> values alive in the program, by variable slot
    net,        \* per slot: (incref calls) - (decref calls) made on the object
    made,       \* per id: wrappers built from it since its creation (0, 1, 2 = many)
    last,       \* the last call made and what it returned
    host,       \* the build target: byte order and pointer width
    native,     \* what the native library keeps for each registered identifier
    origin,     \* per slot: what the program built the object from
    lock,       \* the process-wide reentrant lock: its owner and depth
    threads,    \* per thread: the call it is in and how far it has come
    applied     \* per id: increments minus decrements the registry was asked for

vars == <<registry, objects, net, made, last, host, native, origin, lock, threads, applied>>

----------------------------------------------------------------------------
(* Bounds of the model *)

MaxId == 2          \* user identifiers the registry hands out: 1..MaxId
MaxObj == 2         \* Object<T> variables alive at once
MaxRef == 2         \* cap on an identifier's reference count
MaxRank == 2        \* ranks of the shapes given to Dataspace::new: 0..MaxRank
WordBits == 2       \* bits the model gives to a 32-bit word

----------------------------------------------------------------------------
(* Identifiers *)

H5I_INVALID_HID == -1
H5P_DEFAULT == 0

UserIds == 1..MaxId

\* A predefined, library-owned ("locked") datatype identifier such as
\* *H5T_STD_I32LE: it has a native class but is no valid user identifier.
LockedId == MaxId + 1

AllIds == {H5I_INVALID_HID, H5P_DEFAULT} \cup UserIds \cup {LockedId}

Slots == 1..MaxObj

\* H5I_type_t tags of the identifiers the program creates
IdTypes == {"H5I_GENPROP_LST", "H5I_DATATYPE", "H5I_DATASPACE", "H5I_GROUP"}

\* H5T_class_t tags a datatype identifier may carry
DatatypeClasses == {"H5T_INTEGER", "H5T_FLOAT", "H5T_REFERENCE", "H5T_NCLASSES"}

FreeEntry == [ref |-> 0, type |-> "H5I_BADID", cls |-> "H5T_NO_CLASS"]

\* What a native creation call (H5Pcreate, H5Tcopy, H5Screate_simple, group
\* creation) registers: one reference, the class of the call.
NewEntries ==
    {[ref |-> 1, type |-> t, cls |-> "H5T_NO_CLASS"] : t \in IdTypes \ {"H5I_DATATYPE"}}
    \cup {[ref |-> 1, type |-> "H5I_DATATYPE", cls |-> c] : c \in DatatypeClasses}

----------------------------------------------------------------------------
(* The native library, at its interface *)

----------------------------------------------------------------------------
(* Integer types. The widths keep their proportions: hsize_t is two words, *)
(* usize one word on a 32-bit target and two on a 64-bit target.           *)

RECURSIVE Pow2(_)
Pow2(n) == IF n = 0 THEN 1 ELSE 2 * Pow2(n - 1)

HsizeBits == 2 * WordBits

IxBits(h) == IF h.width = 32 THEN WordBits ELSE 2 * WordBits

\* `x as hsize_t`, `x as usize`
as_hsize_t(x) == x % Pow2(HsizeBits)
as_usize(x, h) == x % Pow2(IxBits(h))

\* usize::MAX
MaxIx(h) == Pow2(IxBits(h)) - 1

\* (hsize_t)(-1)
H5S_UNLIMITED == Pow2(HsizeBits) - 1

H5S_MAX_RANK == 32

\* what the library keeps behind an identifier: the layout of a datatype,
\* the extents of a dataspace, the path and the links of a group
NoData ==
    [order |-> "H5T_ORDER_ERROR", sign |-> "H5T_SGN_ERROR", precision |-> 0,
     offset |-> 0, size |-> 0, dims |-> <<>>, maxdims |-> <<>>,
     name |-> "", members |-> 0]

NoOrigin == [kind |-> "id", tp |-> "-", dims |-> <<>>, resizable |-> FALSE]

H5Iis_valid(reg, id) == id \in UserIds /\ reg[id].ref > 0

H5Iget_type(reg, id) ==
    IF id \in UserIds /\ reg[id].ref > 0 THEN reg[id].type
    ELSE IF id = LockedId THEN "H5I_DATATYPE"
    ELSE "H5I_BADID"

H5Tget_class(reg, id) ==
    IF id \in UserIds /\ reg[id].ref > 0 /\ reg[id].type = "H5I_DATATYPE" THEN reg[id].cls
    ELSE IF id = LockedId THEN "H5T_INTEGER"
    ELSE "H5T_NO_CLASS"

\* the count, or a negative error code
H5Iget_ref(reg, id) ==
    IF id \in UserIds /\ reg[id].ref > 0 THEN reg[id].ref ELSE -1

H5Iinc_ref(reg, id) ==
    IF id \in UserIds /\ reg[id].ref > 0
    THEN [reg EXCEPT ![id].ref = @ + 1]
    ELSE reg

\* the native release happens when the count reaches zero
H5Idec_ref(reg, id) ==
    IF id \in UserIds /\ reg[id].ref > 1 THEN [reg EXCEPT ![id].ref = @ - 1]
    ELSE IF id \in UserIds /\ reg[id].ref = 1 THEN [reg EXCEPT ![id] = FreeEntry]
    ELSE reg

\* a registered datatype
IsDatatype(reg, id) == id \in UserIds /\ reg[id].ref > 0 /\ reg[id].type = "H5I_DATATYPE"

\* the inspection calls of datatypes; a negative value is the error code
H5Tget_order(reg, nat, id) == IF IsDatatype(reg, id) THEN nat[id].order ELSE "H5T_ORDER_ERROR"
H5Tget_sign(reg, nat, id) == IF IsDatatype(reg, id) THEN nat[id].sign ELSE "H5T_SGN_ERROR"
H5Tget_offset(reg, nat, id) == IF IsDatatype(reg, id) THEN nat[id].offset ELSE -1
H5Tget_precision(reg, nat, id) == IF IsDatatype(reg, id) THEN nat[id].precision ELSE 0
H5Tget_size(reg, nat, id) == IF IsDatatype(reg, id) THEN nat[id].size ELSE 0

\* the logical comparison of two datatypes: 1 equal, 0 different, negative
\* when either identifier is no datatype
H5Tequal(reg, nat, a, b) ==
    IF IsDatatype(reg, a) /\ IsDatatype(reg, b)
    THEN IF reg[a].cls = reg[b].cls /\ nat[a] = nat[b] THEN 1 ELSE 0
    ELSE -1

\* a registered dataspace
IsDataspace(reg, id) == id \in UserIds /\ reg[id].ref > 0 /\ reg[id].type = "H5I_DATASPACE"

\* H5Screate_simple, the new dataspace being registered under the free
\* identifier i; a current extent must have a specific size and no maximum
\* may be below its current extent
H5Screate_simple(reg, nat, rank, dims, maxdims, i) ==
    IF \/ rank > H5S_MAX_RANK
       \/ \E k \in 1..rank : dims[k] = H5S_UNLIMITED
       \/ \E k \in 1..rank : maxdims[k] # H5S_UNLIMITED /\ maxdims[k] < dims[k]
    THEN [ret |-> -1, reg |-> reg, nat |-> nat]
    ELSE [ret |-> i,
          reg |-> [reg EXCEPT ![i] = [ref |-> 1, type |-> "H5I_DATASPACE", cls |-> "H5T_NO_CLASS"]],
          nat |-> [nat EXCEPT ![i] = [NoData EXCEPT !.dims = dims, !.maxdims = maxdims]]]

H5Sget_simple_extent_ndims(reg, nat, id) ==
    IF IsDataspace(reg, id) THEN Len(nat[id].dims) ELSE -1

\* the rank returned and the two arrays filled
H5Sget_simple_extent_dims(reg, nat, id) ==
    IF IsDataspace(reg, id)
    THEN [ret |-> Len(nat[id].dims), dims |-> nat[id].dims, maxdims |-> nat[id].maxdims]
    ELSE [ret |-> -1, dims |-> <<>>, maxdims |-> <<>>]

\* a registered group
IsGroup(reg, id) == id \in UserIds /\ reg[id].ref > 0 /\ reg[id].type = "H5I_GROUP"

\* the creation of a group at path `name` that comes to hold `members`
\* links, registered under the free identifier i
GroupEntry(reg, nat, name, members, i) ==
    [reg |-> [reg EXCEPT ![i] = [ref |-> 1, type |-> "H5I_GROUP", cls |-> "H5T_NO_CLASS"]],
     nat |-> [nat EXCEPT ![i] = [NoData EXCEPT !.name = name, !.members = members]]]

\* name() and len() of a location and container: "" and 0 when the native
\* query fails
Location_name(reg, nat, id) == IF IsGroup(reg, id) THEN nat[id].name ELSE ""
Container_len(reg, nat, id) == IF IsGroup(reg, id) THEN nat[id].members ELSE 0

\* the predefined descriptors of the library, by the name of the global
Std(cls, sign, bits, order) ==
    [cls |-> cls, sign |-> sign, precision |-> bits, size |-> bits \div 8,
     offset |-> 0, order |-> order]

Predefined(name) ==
    CASE name = "H5T_STD_I8BE" -> Std("H5T_INTEGER", "H5T_SGN_2", 8, "H5T_ORDER_BE")
      [] name = "H5T_STD_I16BE" -> Std("H5T_INTEGER", "H5T_SGN_2", 16, "H5T_ORDER_BE")
      [] name = "H5T_STD_I32BE" -> Std("H5T_INTEGER", "H5T_SGN_2", 32, "H5T_ORDER_BE")
      [] name = "H5T_STD_I64BE" -> Std("H5T_INTEGER", "H5T_SGN_2", 64, "H5T_ORDER_BE")
      [] name = "H5T_STD_U8BE" -> Std("H5T_INTEGER", "H5T_SGN_NONE", 8, "H5T_ORDER_BE")
      [] name = "H5T_STD_U16BE" -> Std("H5T_INTEGER", "H5T_SGN_NONE", 16, "H5T_ORDER_BE")
      [] name = "H5T_STD_U32BE" -> Std("H5T_INTEGER", "H5T_SGN_NONE", 32, "H5T_ORDER_BE")
      [] name = "H5T_STD_U64BE" -> Std("H5T_INTEGER", "H5T_SGN_NONE", 64, "H5T_ORDER_BE")
      [] name = "H5T_IEEE_F32BE" -> Std("H5T_FLOAT", "H5T_SGN_ERROR", 32, "H5T_ORDER_BE")
      [] name = "H5T_IEEE_F64BE" -> Std("H5T_FLOAT", "H5T_SGN_ERROR", 64, "H5T_ORDER_BE")
      [] name = "H5T_STD_I8LE" -> Std("H5T_INTEGER", "H5T_SGN_2", 8, "H5T_ORDER_LE")
      [] name = "H5T_STD_I16LE" -> Std("H5T_INTEGER", "H5T_SGN_2", 16, "H5T_ORDER_LE")
      [] name = "H5T_STD_I32LE" -> Std("H5T_INTEGER", "H5T_SGN_2", 32, "H5T_ORDER_LE")
      [] name = "H5T_STD_I64LE" -> Std("H5T_INTEGER", "H5T_SGN_2", 64, "H5T_ORDER_LE")
      [] name = "H5T_STD_U8LE" -> Std("H5T_INTEGER", "H5T_SGN_NONE", 8, "H5T_ORDER_LE")
      [] name = "H5T_STD_U16LE" -> Std("H5T_INTEGER", "H5T_SGN_NONE", 16, "H5T_ORDER_LE")
      [] name = "H5T_STD_U32LE" -> Std("H5T_INTEGER", "H5T_SGN_NONE", 32, "H5T_ORDER_LE")
      [] name = "H5T_STD_U64LE" -> Std("H5T_INTEGER", "H5T_SGN_NONE", 64, "H5T_ORDER_LE")
      [] name = "H5T_IEEE_F32LE" -> Std("H5T_FLOAT", "H5T_SGN_ERROR", 32, "H5T_ORDER_LE")
      [] name = "H5T_IEEE_F64LE" -> Std("H5T_FLOAT", "H5T_SGN_ERROR", 64, "H5T_ORDER_LE")

\* H5Tcopy of a predefined descriptor, registered under the free identifier i
H5Tcopy(reg, nat, name, i) ==
    LET d == Predefined(name)
    IN  [reg |-> [reg EXCEPT ![i] = [ref |-> 1, type |-> "H5I_DATATYPE", cls |-> d.cls]],
         nat |-> [nat EXCEPT ![i] = [NoData EXCEPT !.order = d.order, !.sign = d.sign,
                                      !.precision = d.precision, !.offset = d.offset,
                                      !.size = d.size]]]

----------------------------------------------------------------------------
(* Handle *)

NoObject == [id |-> H5I_INVALID_HID, cap |-> "none", detail |-> "none"]

Live(objs, s) == objs[s].cap # "none"

get_id_type(reg, id) ==
    LET tp == H5Iget_type(reg, id)
    IN  IF id > 0 /\ tp # "H5I_BADID" THEN tp ELSE "H5I_BADID"

is_valid_user_id(reg, id) == H5Iis_valid(reg, id)

OkResult == [kind |-> "Ok", name |-> "-", expected |-> {}, got |-> "-"]

Err(kind, name, expected, got) ==
    [kind |-> kind, name |-> name, expected |-> expected, got |-> got]

\* Handle::new: rejects what is no valid user identifier; the count of an
\* accepted identifier is left as it is.
Handle_new(st, id) ==
    IF is_valid_user_id(st.reg, id)
    THEN [res |-> OkResult, st |-> st]
    ELSE [res |-> Err("InvalidHandleId", "-", {}, "-"), st |-> st]

Handle_is_valid(st, hid) == is_valid_user_id(st.reg, hid)

\* every Handle of the released identifier turns into the invalid sentinel
Handle_invalidate(objs, hid) ==
    [s \in Slots |->
        IF Live(objs, s) /\ objs[s].id = hid
        THEN [objs[s] EXCEPT !.id = H5I_INVALID_HID]
        ELSE objs[s]]

Handle_incref(st, hid) ==
    IF is_valid_user_id(st.reg, hid)
    THEN [st EXCEPT !.reg = H5Iinc_ref(st.reg, hid)]
    ELSE st

Handle_decref(st, hid) ==
    IF Handle_is_valid(st, hid)
    THEN LET reg2 == H5Idec_ref(st.reg, hid)
         IN  IF ~is_valid_user_id(reg2, hid)
             THEN [reg |-> reg2, objs |-> Handle_invalidate(st.objs, hid)]
             ELSE [reg |-> reg2, objs |-> st.objs]
    ELSE st

\* Drop for Handle: one decref
Handle_drop(st, hid) == Handle_decref(st, hid)

----------------------------------------------------------------------------
(* Capabilities (implementations of ObjectType) *)

Capabilities ==
    {"TestObjectID", "DatatypeID", "IntegerDatatypeID", "FloatDatatypeID",
     "DataspaceID", "GroupID", "OneOfObjectID"}

AnyClass == [tag |-> "Any", cls |-> {}]
Just(c) == [tag |-> "Just", cls |-> {c}]
OneOf(cs) == [tag |-> "OneOf", cls |-> cs]

\* "OneOfObjectID" stands for an implementer of ObjectType that declares
\* AllowTypes::OneOf; the generic from_id has a branch for it.
allow_types(cap) ==
    CASE cap = "TestObjectID" -> AnyClass
      [] cap = "DatatypeID" -> Just("H5I_DATATYPE")
      [] cap = "IntegerDatatypeID" -> Just("H5I_DATATYPE")
      [] cap = "FloatDatatypeID" -> Just("H5I_DATATYPE")
      [] cap = "DataspaceID" -> Just("H5I_DATASPACE")
      [] cap = "GroupID" -> Just("H5I_GROUP")
      [] OTHER -> OneOf({"H5I_GROUP", "H5I_DATASPACE"})

type_name(cap) ==
    CASE cap = "TestObjectID" -> "test object"
      [] cap = "DatatypeID" -> "datatype"
      [] cap = "IntegerDatatypeID" -> "integer datatype"
      [] cap = "FloatDatatypeID" -> "float datatype"
      [] cap = "DataspaceID" -> "dataspace"
      [] cap = "GroupID" -> "group"
      [] OTHER -> "one-of object"

Detail(res, detail, tcls) == [res |-> res, detail |-> detail, tcls |-> tcls]

\* Faulty variant: a classification that only knows H5T_NO_CLASS as invalid
DatatypeID_from_id_conflated(reg, id) ==
    LET cls == H5Tget_class(reg, id)
    IN  CASE cls = "H5T_INTEGER" -> Detail(OkResult, "Integer", cls)
          [] cls = "H5T_FLOAT" -> Detail(OkResult, "Float", cls)
          [] cls = "H5T_NO_CLASS" ->
                Detail(Err("InvalidDatatypeClass", "-", {}, "-"), "none", cls)
          [] OTHER -> Detail(Err("UnsupportedDatatype", "-", {}, cls), "none", cls)

\* DatatypeID::from_id
DatatypeID_from_id(reg, id) ==
    LET cls == H5Tget_class(reg, id)
    IN  CASE cls = "H5T_INTEGER" -> Detail(OkResult, "Integer", cls)
          [] cls = "H5T_FLOAT" -> Detail(OkResult, "Float", cls)
          [] cls \in {"H5T_NO_CLASS", "H5T_NCLASSES"} ->
                Detail(Err("InvalidDatatypeClass", "-", {}, "-"), "none", cls)
          [] OTHER -> Detail(Err("UnsupportedDatatype", "-", {}, cls), "none", cls)

\* def_atomic!: from_id of IntegerDatatypeID and FloatDatatypeID
Atomic_from_id(h5t, detail, reg, id) ==
    LET cls == H5Tget_class(reg, id)
    IN  IF cls = h5t
        THEN Detail(OkResult, detail, cls)
        ELSE Detail(Err("InvalidDatatypeClassExpected", "-", {h5t}, cls), "none", cls)

\* T::from_id, by capability
T_from_id(cap, reg, id) ==
    CASE cap = "DatatypeID" -> DatatypeID_from_id(reg, id)
      [] cap = "IntegerDatatypeID" -> Atomic_from_id("H5T_INTEGER", "IntegerDatatypeID", reg, id)
      [] cap = "FloatDatatypeID" -> Atomic_from_id("H5T_FLOAT", "FloatDatatypeID", reg, id)
      [] OTHER -> Detail(OkResult, cap, "-")

----------------------------------------------------------------------------
(* Object<T> *)

Outcome(res, calls, d, st, obj) ==
    [res |-> res, calls |-> calls, detail |-> d.detail, tcls |-> d.tcls,
     st |-> st, obj |-> obj]

NoDetail == Detail(OkResult, "none", "-")

\* Faulty variants of Object::from_id, the same steps with one changed:
\* no class pre-check; the Handle taken before the detail is constructed and
\* destroyed when that fails; a Handle that is not validated; a reference
\* taken on success
FromIdVariant(st, id, cap, precheck, handle_first, validate, take_ref) ==
    LET at == allow_types(cap)
        id_type == get_id_type(st.reg, id)
        pre == IF precheck /\ at.tag # "Any" /\ ~(id_type \in at.cls)
               THEN Err(IF at.tag = "Just" THEN "InvalidIdType" ELSE "InvalidIdTypeOneOf",
                        type_name(cap), at.cls, id_type)
               ELSE OkResult
        c0 == IF precheck /\ at.tag # "Any" THEN <<"get_id_type">> ELSE <<>>
        h == IF validate THEN Handle_new(st, id) ELSE [res |-> OkResult, st |-> st]
        d == T_from_id(cap, st.reg, id)
        order == IF handle_first THEN <<"Handle::new", "T::from_id">>
                 ELSE <<"T::from_id", "Handle::new">>
        done == IF take_ref THEN Handle_incref(h.st, id) ELSE h.st
    IN  IF pre.kind # "Ok" THEN Outcome(pre, c0, NoDetail, st, NoObject)
        ELSE IF handle_first
        THEN IF h.res.kind # "Ok" THEN Outcome(h.res, Append(c0, "Handle::new"), NoDetail, st, NoObject)
             ELSE IF d.res.kind # "Ok"
             THEN Outcome(d.res, c0 \o order, d, Handle_drop(h.st, id), NoObject)
             ELSE Outcome(OkResult, c0 \o order, d, done,
                          [id |-> id, cap |-> cap, detail |-> d.detail])
        ELSE IF d.res.kind # "Ok" THEN Outcome(d.res, Append(c0, "T::from_id"), d, st, NoObject)
             ELSE IF h.res.kind # "Ok" THEN Outcome(h.res, c0 \o order, d, st, NoObject)
             ELSE Outcome(OkResult, c0 \o order, d, done,
                          [id |-> id, cap |-> cap, detail |-> d.detail])

Object_from_id_no_precheck(st, id, cap) == FromIdVariant(st, id, cap, FALSE, FALSE, TRUE, FALSE)
Object_from_id_handle_first(st, id, cap) == FromIdVariant(st, id, cap, TRUE, TRUE, TRUE, FALSE)
Object_from_id_unchecked(st, id, cap) == FromIdVariant(st, id, cap, TRUE, FALSE, FALSE, FALSE)
Object_from_id_incref(st, id, cap) == FromIdVariant(st, id, cap, TRUE, FALSE, TRUE, TRUE)

\* Object::from_id. `calls` lists the calls it makes, in order; `obj` is the
\* Object returned on success.
Object_from_id(st, id, cap) ==
    LET at == allow_types(cap)
        id_type == get_id_type(st.reg, id)
        pre == IF at.tag = "Just"
               THEN IF {id_type} = at.cls THEN OkResult
                    ELSE Err("InvalidIdType", type_name(cap), at.cls, id_type)
               ELSE IF at.tag = "OneOf"
               THEN IF \E c \in at.cls : c = id_type THEN OkResult
                    ELSE Err("InvalidIdTypeOneOf", type_name(cap), at.cls, id_type)
               ELSE OkResult
        c0 == IF at.tag = "Any" THEN <<>> ELSE <<"get_id_type">>
    IN  IF pre.kind # "Ok"
        THEN Outcome(pre, c0, NoDetail, st, NoObject)
        ELSE LET d == T_from_id(cap, st.reg, id)
                 c1 == Append(c0, "T::from_id")
             IN  IF d.res.kind # "Ok"
                 THEN Outcome(d.res, c1, d, st, NoObject)
                 ELSE LET h == Handle_new(st, id)
                          c2 == Append(c1, "Handle::new")
                      IN  IF h.res.kind # "Ok"
                          THEN Outcome(h.res, c2, d, h.st, NoObject)
                          ELSE Outcome(OkResult, c2, d, h.st,
                                       [id |-> id, cap |-> cap, detail |-> d.detail])

\* Object::id
Object_id(st, s) == st.objs[s].id

\* Object::is_valid
Object_is_valid(st, s) == Handle_is_valid(st, Object_id(st, s))

\* Faulty variant: incref that takes two references
Object_incref_twice(st, s) ==
    Handle_incref(Handle_incref(st, st.objs[s].id), st.objs[s].id)

\* Faulty variant: incref that forgets to call the handle
Object_incref_noop(st, s) == st

\* Object::incref
Object_incref(st, s) == Handle_incref(st, st.objs[s].id)

\* Faulty variant: decref that calls the registry itself and leaves the handles of
\* a released identifier as they are
Object_decref_raw(st, s) ==
    [st EXCEPT !.reg = H5Idec_ref(st.reg, st.objs[s].id)]

\* Object::decref
Object_decref(st, s) == Handle_decref(st, st.objs[s].id)

\* Faulty variant: refcount without the validity and sign guards
Object_refcount_raw(st, s) == H5Iget_ref(st.reg, st.objs[s].id)

\* Object::refcount
Object_refcount(st, s) ==
    IF Object_is_valid(st, s)
    THEN LET count == H5Iget_ref(st.reg, Object_id(st, s))
         IN  IF count >= 0 THEN count ELSE 0
    ELSE 0

\* Faulty variant: an Object that decrements in its own destructor and then lets
\* the Handle decrement again
Object_drop_twice(st, s) ==
    LET st2 == Handle_drop(Handle_decref(st, st.objs[s].id), st.objs[s].id)
    IN  [st2 EXCEPT !.objs[s] = NoObject]

\* Destroying an Object destroys the Handle it owns.
Object_drop(st, s) ==
    LET st2 == Handle_drop(st, st.objs[s].id)
    IN  [st2 EXCEPT !.objs[s] = NoObject]

\* Datatype::class
Datatype_class(st, s) ==
    LET cls == H5Tget_class(st.reg, Object_id(st, s))
    IN  CASE cls = "H5T_INTEGER" -> Detail(OkResult, "Integer", cls)
          [] cls = "H5T_FLOAT" -> Detail(OkResult, "Float", cls)
          [] cls \in {"H5T_NO_CLASS", "H5T_NCLASSES"} ->
                Detail(Err("InvalidDatatypeClass", "-", {}, "-"), "none", cls)
          [] OTHER -> Detail(Err("UnsupportedDatatype", "-", {}, cls), "none", cls)

----------------------------------------------------------------------------
(* Datatypes of the native scalar types *)

ScalarTypes ==
    {"bool", "i8", "i16", "i32", "i64", "u8", "u16", "u32", "u64", "f32", "f64",
     "isize", "usize"}

Hosts == [endian : {"big", "little"}, width : {32, 64}]

Globals(be, le) == [be |-> be, le |-> le]

\* the table of impl_atomic!; the rows of usize and isize are chosen by
\* target_pointer_width
impl_atomic(tp, width) ==
    CASE tp = "bool" -> Globals("H5T_STD_U8BE", "H5T_STD_U8LE")
      [] tp = "i8" -> Globals("H5T_STD_I8BE", "H5T_STD_I8LE")
      [] tp = "i16" -> Globals("H5T_STD_I16BE", "H5T_STD_I16LE")
      [] tp = "i32" -> Globals("H5T_STD_I32BE", "H5T_STD_I32LE")
      [] tp = "i64" -> Globals("H5T_STD_I64BE", "H5T_STD_I64LE")
      [] tp = "u8" -> Globals("H5T_STD_U8BE", "H5T_STD_U8LE")
      [] tp = "u16" -> Globals("H5T_STD_U16BE", "H5T_STD_U16LE")
      [] tp = "u32" -> Globals("H5T_STD_U32BE", "H5T_STD_U32LE")
      [] tp = "u64" -> Globals("H5T_STD_U64BE", "H5T_STD_U64LE")
      [] tp = "f32" -> Globals("H5T_IEEE_F32BE", "H5T_IEEE_F32LE")
      [] tp = "f64" -> Globals("H5T_IEEE_F64BE", "H5T_IEEE_F64LE")
      [] tp = "usize" /\ width = 32 -> Globals("H5T_STD_U32BE", "H5T_STD_U32LE")
      [] tp = "isize" /\ width = 32 -> Globals("H5T_STD_I32BE", "H5T_STD_I32LE")
      [] tp = "usize" /\ width = 64 -> Globals("H5T_STD_U64BE", "H5T_STD_U64LE")
      [] tp = "isize" /\ width = 64 -> Globals("H5T_STD_I64BE", "H5T_STD_I64LE")

\* Faulty variant: the little-endian descriptor whatever the target
to_datatype_global_le(tp, h) == impl_atomic(tp, h.width).le

\* the descriptor to_datatype copies: chosen by target_endian
to_datatype_global(tp, h) ==
    IF h.endian = "big" THEN impl_atomic(tp, h.width).be ELSE impl_atomic(tp, h.width).le

\* T::to_datatype(): Datatype::from_id(h5try!(H5Tcopy(*global))), the copy
\* being registered under the free identifier i
to_datatype(st, nat, tp, h, i) ==
    LET c == H5Tcopy(st.reg, nat, to_datatype_global(tp, h), i)
        r == Object_from_id([reg |-> c.reg, objs |-> st.objs], i, "DatatypeID")
    IN  [r |-> r, nat |-> c.nat]

\* h5call!(...).unwrap_or(0): the value, 0 when the call reports an error
unwrap_or_0(v) == IF v >= 0 THEN v ELSE 0

\* Object<T: AnyDatatype>::size
Datatype_size(st, nat, s) == unwrap_or_0(H5Tget_size(st.reg, nat, Object_id(st, s)))

\* IntegerDatatype::is_signed
Datatype_is_signed(st, nat, s) == H5Tget_sign(st.reg, nat, Object_id(st, s)) = "H5T_SGN_2"

\* Object<T: AtomicDatatype>::is_be, is_le, offset, precision
Datatype_is_be(st, nat, s) == H5Tget_order(st.reg, nat, Object_id(st, s)) = "H5T_ORDER_BE"

Datatype_is_le(st, nat, s) == H5Tget_order(st.reg, nat, Object_id(st, s)) = "H5T_ORDER_LE"

Datatype_offset(st, nat, s) == unwrap_or_0(H5Tget_offset(st.reg, nat, Object_id(st, s)))

Datatype_precision(st, nat, s) == unwrap_or_0(H5Tget_precision(st.reg, nat, Object_id(st, s)))

\* Faulty variant: equality of the identifiers
Datatype_eq_by_id(st, nat, s, t) == Object_id(st, s) = Object_id(st, t)

\* PartialEq for Datatype
Datatype_eq(st, nat, s, t) ==
    unwrap_or_0(H5Tequal(st.reg, nat, Object_id(st, s), Object_id(st, t))) = 1

----------------------------------------------------------------------------
(* Dimension and Dataspace *)

\* Dimension::ndim, Dimension::dims of a shape: (), an extent, a tuple or a
\* vector of extents
Dimension_ndim(d) == Len(d)
Dimension_dims(d) == d

\* Dataspace::ndim
Dataspace_ndim(st, nat, s) ==
    unwrap_or_0(H5Sget_simple_extent_ndims(st.reg, nat, Object_id(st, s)))

\* Dataspace::dims
Dataspace_dims(st, nat, s, h) ==
    LET ndim == Dataspace_ndim(st, nat, s)
        r == H5Sget_simple_extent_dims(st.reg, nat, Object_id(st, s))
    IN  IF ndim > 0 /\ r.ret >= 0
        THEN [k \in 1..ndim |-> as_usize(r.dims[k], h)]
        ELSE <<>>

\* Dataspace::maxdims
Dataspace_maxdims(st, nat, s, h) ==
    LET ndim == Dataspace_ndim(st, nat, s)
        r == H5Sget_simple_extent_dims(st.reg, nat, Object_id(st, s))
    IN  IF ndim > 0 /\ r.ret >= 0
        THEN [k \in 1..ndim |-> as_usize(r.maxdims[k], h)]
        ELSE <<>>

\* Faulty variant: resizable when each maximum is unlimited, none included
Dataspace_resizable_all(st, nat, s, h) ==
    LET maxdims == Dataspace_maxdims(st, nat, s, h)
    IN  \A k \in 1..Len(maxdims) : maxdims[k] = as_usize(H5S_UNLIMITED, h)

\* Dataspace::resizable
Dataspace_resizable(st, nat, s, h) ==
    LET maxdims == Dataspace_maxdims(st, nat, s, h)
    IN  \E k \in 1..Len(maxdims) : maxdims[k] = as_usize(H5S_UNLIMITED, h)

\* Dataspace::new(d, resizable), the dataspace being registered under the
\* free identifier i
Dataspace_new(st, nat, d, resizable, i) ==
    LET rank == Dimension_ndim(d)
        dims == [k \in 1..Len(Dimension_dims(d)) |-> as_hsize_t(Dimension_dims(d)[k])]
        max_dims == [k \in 1..Len(Dimension_dims(d)) |->
                        IF resizable THEN H5S_UNLIMITED ELSE as_hsize_t(Dimension_dims(d)[k])]
        c == H5Screate_simple(st.reg, nat, rank, dims, max_dims, i)
    IN  IF c.ret < 0
        THEN [r |-> Outcome(Err("NativeCallFailed", "-", {}, "-"), <<>>, NoDetail, st, NoObject),
              nat |-> nat]
        ELSE [r |-> Object_from_id([reg |-> c.reg, objs |-> st.objs], c.ret, "DataspaceID"),
              nat |-> c.nat]

----------------------------------------------------------------------------
(* Rendering *)

Digit(n) ==
    CASE n = 0 -> "0" [] n = 1 -> "1" [] n = 2 -> "2" [] n = 3 -> "3" [] n = 4 -> "4"
      [] n = 5 -> "5" [] n = 6 -> "6" [] n = 7 -> "7" [] n = 8 -> "8" [] n = 9 -> "9"

\* format!("{}", n) of an unsigned integer
RECURSIVE Decimal(_)
Decimal(n) == IF n < 10 THEN Digit(n) ELSE Decimal(n \div 10) \o Digit(n % 10)

\* the loop of DataspaceID::describe after the first k extents
RECURSIVE PushDims(_, _)
PushDims(dims, k) ==
    IF k = 0 THEN ""
    ELSE PushDims(dims, k - 1) \o (IF k - 1 > 0 THEN ", " ELSE "") \o Decimal(dims[k])

\* Faulty variant: the trailing comma pushed for every rank but 0
DataspaceID_describe_comma(st, nat, s, h) ==
    LET dims == PushDims(Dataspace_dims(st, nat, s, h), Len(Dataspace_dims(st, nat, s, h)))
    IN  "(" \o (IF Dataspace_ndim(st, nat, s) >= 1 THEN dims \o "," ELSE dims) \o ")"

\* DataspaceID::describe
DataspaceID_describe(st, nat, s, h) ==
    LET dims == PushDims(Dataspace_dims(st, nat, s, h), Len(Dataspace_dims(st, nat, s, h)))
    IN  "(" \o (IF Dataspace_ndim(st, nat, s) = 1 THEN dims \o "," ELSE dims) \o ")"

\* T::describe, by capability: the default is the empty string
describe(cap, st, nat, s, h) ==
    CASE cap = "TestObjectID" -> "foo"
      [] cap = "DataspaceID" -> DataspaceID_describe(st, nat, s, h)
      [] OTHER -> ""

\* Faulty variant: no look at the validity of the object
Object_fmt_unchecked(cap, st, nat, s, h) ==
    LET desc == describe(cap, st, nat, s, h)
    IN  IF desc = "" THEN "<HDF5 " \o type_name(cap) \o ">"
        ELSE "<HDF5 " \o type_name(cap) \o ": " \o desc \o ">"

\* fmt::Debug for Object<T>
Object_fmt(cap, st, nat, s, h) ==
    IF ~Object_is_valid(st, s)
    THEN "<HDF5 " \o type_name(cap) \o ": invalid id>"
    ELSE LET desc == describe(cap, st, nat, s, h)
         IN  IF desc = "" THEN "<HDF5 " \o type_name(cap) \o ">"
             ELSE "<HDF5 " \o type_name(cap) \o ": " \o desc \o ">"

\* fmt::Display for IntegerDatatype
IntegerDatatype_fmt(st, nat, s) ==
    IF ~Object_is_valid(st, s) THEN "<HDF5 datatype: invalid id>"
    ELSE "<HDF5 datatype: " \o Decimal(Datatype_precision(st, nat, s)) \o "-bit "
            \o (IF Datatype_is_signed(st, nat, s) THEN "" ELSE "un") \o "signed integer>"

\* fmt::Display for FloatDatatype
FloatDatatype_fmt(st, nat, s) ==
    IF ~Object_is_valid(st, s) THEN "<HDF5 datatype: invalid id>"
    ELSE "<HDF5 datatype: " \o Decimal(Datatype_precision(st, nat, s)) \o "-bit float>"

\* fmt::Display for Datatype
Datatype_fmt(st, nat, s) ==
    IF ~Object_is_valid(st, s) THEN "<HDF5 datatype: invalid id>"
    ELSE LET dt == Datatype_class(st, s)
         IN  IF dt.res.kind = "Ok"
             THEN IF dt.detail = "Integer" THEN IntegerDatatype_fmt(st, nat, s)
                  ELSE FloatDatatype_fmt(st, nat, s)
             ELSE "<HDF5 datatype: invalid class>"

\* fmt::Display for Group
Group_fmt(st, nat, s) ==
    IF ~Object_is_valid(st, s) THEN "<HDF5 group: invalid id>"
    ELSE LET len == Container_len(st.reg, nat, Object_id(st, s))
             members == CASE len = 0 -> "empty"
                          [] len = 1 -> "1 member"
                          [] OTHER -> Decimal(len) \o " members"
         IN  "<HDF5 group: \"" \o Location_name(st.reg, nat, Object_id(st, s))
                \o "\" (" \o members \o ")>"

\* format!("{:?}", obj): the implementation of the alias where it has one
\* of its own, that of Object<T> otherwise
fmt(cap, st, nat, s, h) ==
    CASE cap = "DatatypeID" -> Datatype_fmt(st, nat, s)
      [] cap = "IntegerDatatypeID" -> IntegerDatatype_fmt(st, nat, s)
      [] cap = "FloatDatatypeID" -> FloatDatatype_fmt(st, nat, s)
      [] cap = "GroupID" -> Group_fmt(st, nat, s)
      [] OTHER -> Object_fmt(cap, st, nat, s, h)

----------------------------------------------------------------------------
(* The lock and the calls of a thread, step by step *)

Threads == {1, 2}

Unlocked == [owner |-> 0, depth |-> 0]

Idle == [op |-> "idle", slot |-> 0, arg |-> H5I_INVALID_HID, cap |-> "-", pc |-> 0,
         inside |-> FALSE, seen |-> FreeEntry, val |-> "ok"]

NativeCalls ==
    {"H5Iis_valid", "H5Iget_type", "H5Tget_class", "H5Iget_ref", "H5Iinc_ref",
     "H5Idec_ref", "H5Tget_size"}

\* A call is written as the steps it takes, in order: "lock" and "unlock"
\* are the entry to and the exit from h5lock! (h5call! and h5try! enter it
\* for the one call they wrap), a native call is named, "check" is a
\* return on the failure of the call before it (ensure!, `?`, `if`),
\* "invalidate" and "make" are Handle::invalidate and Ok(Object { .. }).

\* handle::get_id_type, Handle::is_valid, Handle::new, incref, decref
get_id_type_steps == <<"lock", "H5Iget_type", "unlock">>

Handle_is_valid_steps == <<"lock", "H5Iis_valid", "unlock">>

Handle_new_steps == <<"lock", "H5Iis_valid", "check", "unlock">>

Handle_incref_steps == <<"lock", "H5Iis_valid", "check", "H5Iinc_ref", "unlock">>

Handle_decref_steps ==
    <<"lock", "H5Iis_valid", "check", "H5Idec_ref", "H5Iis_valid", "invalidate", "unlock">>

\* T::from_id: the datatype capabilities read the class inside h5lock!
T_from_id_steps(cap) ==
    IF cap \in {"DatatypeID", "IntegerDatatypeID", "FloatDatatypeID"}
    THEN <<"lock", "H5Tget_class", "check", "unlock">>
    ELSE <<>>

\* Object::from_id
Object_from_id_steps(cap) ==
    (IF allow_types(cap).tag = "Any" THEN <<>> ELSE get_id_type_steps \o <<"check">>)
        \o <<"lock">> \o T_from_id_steps(cap) \o Handle_new_steps \o <<"unlock", "make">>

\* Object::incref, Object::decref
Object_incref_steps == Handle_incref_steps

Object_decref_steps == Handle_decref_steps

\* Faulty variant: H5Iget_ref called without h5call!
Object_refcount_steps_bare == Handle_is_valid_steps \o <<"check", "H5Iget_ref">>

\* Object::refcount
Object_refcount_steps ==
    Handle_is_valid_steps \o <<"check">> \o <<"lock", "H5Iget_ref", "unlock">>

\* Object<T: AnyDatatype>::size
Datatype_size_steps == <<"lock", "H5Tget_size", "unlock">>

Steps(th) ==
    CASE th.op = "from_id" -> Object_from_id_steps(th.cap)
      [] th.op = "incref" -> Object_incref_steps
      [] th.op = "decref" -> Object_decref_steps
      [] th.op = "refcount" -> Object_refcount_steps
      [] th.op = "size" -> Datatype_size_steps
      [] OTHER -> <<>>

\* the step a thread is at
At(th) == IF th.pc \in 1..Len(Steps(th)) THEN Steps(th)[th.pc] ELSE "end"

\* the identifier a call is made on: the argument of from_id, self.id()
\* as it is when the call is made otherwise
Target(th, objs) == IF th.op = "from_id" THEN th.arg ELSE objs[th.slot].id

Entry(reg, i) == IF i \in UserIds THEN reg[i] ELSE FreeEntry

\* whether the call a thread has made lets it go on
Passed(th, reg, i) ==
    CASE At(th) = "H5Iis_valid" -> H5Iis_valid(reg, i)
      [] At(th) = "H5Iget_type" -> get_id_type(reg, i) \in allow_types(th.cap).cls
      [] At(th) = "H5Tget_class" -> T_from_id(th.cap, reg, i).res.kind = "Ok"
      [] OTHER -> TRUE

----------------------------------------------------------------------------
(* The program *)

State == [reg |-> registry, objs |-> objects]

id(s) == Object_id(State, s)
is_valid(s) == Object_is_valid(State, s)
refcount(s) == Object_refcount(State, s)

\* the other objects that hold the identifier of object s
Linked(s) ==
    {t \in Slots \ {s} : Live(objects, t) /\ is_valid(s) /\ objects[t].id = objects[s].id}

\* the record of a from_id or class call
Call(op, s, i, cap, res, calls, detail, tcls) ==
    [op |-> op, slot |-> s, id |-> i, cap |-> cap, res |-> res,
     calls |-> calls, detail |-> detail, tcls |-> tcls, linked |-> {}]

\* the record of a call on object s: the identifier it held when called,
\* the objects sharing it, and whether the call released the identifier
OnObject(op, s, st2) ==
    [op |-> op, slot |-> s, id |-> objects[s].id,
     cap |-> objects[s].cap, res |-> OkResult, calls |-> <<>>,
     detail |-> IF is_valid(s) /\ ~H5Iis_valid(st2.reg, objects[s].id)
                THEN "released" ELSE "-",
     tcls |-> "-", linked |-> Linked(s)]

Start ==
    [op |-> "init", slot |-> 0, id |-> H5I_INVALID_HID,
     cap |-> "-", res |-> OkResult, calls |-> <<>>, detail |-> "-", tcls |-> "-",
     linked |-> {}]

\* `made` keeps nothing about released identifiers; `net` is kept for an
\* object while it is valid and the only wrapper its identifier ever had
Counted(m, st) ==
    [i \in UserIds |-> IF st.reg[i].ref > 0 THEN m[i] ELSE 0]

Normal(n, m, st) ==
    [s \in Slots |->
        IF Live(st.objs, s) /\ Object_is_valid(st, s) /\ m[st.objs[s].id] = 1
        THEN n[s] ELSE 0]

\* nothing registered, no object
Empty ==
    /\ registry = [i \in UserIds |-> FreeEntry]
    /\ objects = [s \in Slots |-> NoObject]
    /\ net = [s \in Slots |-> 0]
    /\ made = [i \in UserIds |-> 0]
    /\ last = Start
    /\ native = [i \in UserIds |-> NoData]
    /\ origin = [s \in Slots |-> NoOrigin]
    /\ lock = Unlocked
    /\ threads = [t \in Threads |-> Idle]
    /\ applied = [i \in UserIds |-> 0]

Init ==
    /\ Empty
    /\ host = [endian |-> "little", width |-> 64]

\* a released identifier takes what the library kept for it along
Kept(nat, st) ==
    [i \in UserIds |-> IF st.reg[i].ref > 0 THEN nat[i] ELSE NoData]

Known(org, st) ==
    [s \in Slots |-> IF Live(st.objs, s) THEN org[s] ELSE NoOrigin]

\* the state after a call: what the call left, and the bookkeeping
AfterAll(st2, n, m, nat, org) ==
    /\ registry' = st2.reg
    /\ objects' = st2.objs
    /\ made' = Counted(m, st2)
    /\ net' = Normal(n, Counted(m, st2), st2)
    /\ native' = Kept(nat, st2)
    /\ origin' = Known(org, st2)
    /\ host' = host
    /\ UNCHANGED <<lock, threads, applied>>

After(st2, n, m) == AfterAll(st2, n, m, native, origin)

\* a native creation call returns an identifier that is not in use
Create(i, e) ==
    /\ registry[i].ref = 0
    /\ After([reg |-> [registry EXCEPT ![i] = e], objs |-> objects], net, made)
    /\ last' = [Start EXCEPT !.op = "create"]

\* let obj = T::from_id(id)
FromId(s, i, cap) ==
    /\ ~Live(objects, s)
    /\ LET r == Object_from_id(State, i, cap)
           st2 == [reg |-> r.st.reg, objs |-> [r.st.objs EXCEPT ![s] = r.obj]]
           m == IF r.res.kind = "Ok" /\ i \in UserIds
                THEN [made EXCEPT ![i] = IF @ < 2 THEN @ + 1 ELSE 2]
                ELSE made
       IN  /\ After(st2, net, m)
           /\ last' = Call("from_id", s, i, cap, r.res, r.calls, r.detail, r.tcls)

\* obj.incref()
Incref(s) ==
    /\ Live(objects, s)
    /\ is_valid(s) => refcount(s) < MaxRef
    /\ LET st2 == Object_incref(State, s)
       IN  /\ After(st2, [net EXCEPT ![s] = @ + 1], made)
           /\ last' = OnObject("incref", s, st2)

\* obj.decref()
Decref(s) ==
    /\ Live(objects, s)
    /\ LET st2 == Object_decref(State, s)
       IN  /\ After(st2, [net EXCEPT ![s] = @ - 1], made)
           /\ last' = OnObject("decref", s, st2)

\* drop(obj)
Drop(s) ==
    /\ Live(objects, s)
    /\ LET st2 == Object_drop(State, s)
       IN  /\ After(st2, net, made)
           /\ last' = OnObject("drop", s, st2)

\* obj.class() of a Datatype
Class(s) ==
    /\ Live(objects, s)
    /\ objects[s].cap = "DatatypeID"
    /\ LET d == Datatype_class(State, s)
       IN  last' = Call("class", s, objects[s].id, "DatatypeID", d.res, <<>>, d.detail, d.tcls)
    /\ UNCHANGED <<registry, objects, net, made, host, native, origin, lock, threads, applied>>

\* the record of a call that returns a value
Returned(op, s, i, res, out) ==
    [op |-> op, slot |-> s, id |-> i, res |-> res, out |-> out]

\* let obj = T::to_datatype()
ToDatatype(s, tp, i) ==
    /\ ~Live(objects, s)
    /\ registry[i].ref = 0
    /\ LET c == to_datatype(State, native, tp, host, i)
           st2 == [reg |-> c.r.st.reg, objs |-> [c.r.st.objs EXCEPT ![s] = c.r.obj]]
       IN  /\ AfterAll(st2, net, [made EXCEPT ![i] = 1], c.nat,
                       [origin EXCEPT ![s] = [NoOrigin EXCEPT !.kind = "scalar", !.tp = tp]])
           /\ last' = Returned("to_datatype", s, i, c.r.res, tp)

\* obj.class() and, through the view it returns, the accessors of the
\* atomic datatype
Layout(s) ==
    /\ Live(objects, s)
    /\ objects[s].cap = "DatatypeID"
    /\ LET d == Datatype_class(State, s)
       IN  last' = Returned("layout", s, objects[s].id, d.res,
                      [class |-> d.detail,
                       is_be |-> Datatype_is_be(State, native, s),
                       is_le |-> Datatype_is_le(State, native, s),
                       offset |-> Datatype_offset(State, native, s),
                       precision |-> Datatype_precision(State, native, s),
                       size |-> Datatype_size(State, native, s),
                       is_signed |-> d.detail = "Integer" /\ Datatype_is_signed(State, native, s)])
    /\ UNCHANGED <<registry, objects, net, made, host, native, origin, lock, threads, applied>>

\* obj == other
Equal(s, t) ==
    /\ Live(objects, s) /\ objects[s].cap = "DatatypeID"
    /\ Live(objects, t) /\ objects[t].cap = "DatatypeID"
    /\ last' = Returned("eq", s, objects[s].id, OkResult,
                    [other |-> t, eq |-> Datatype_eq(State, native, s, t)])
    /\ UNCHANGED <<registry, objects, net, made, host, native, origin, lock, threads, applied>>

\* let obj = Dataspace::new(d, resizable)
DataspaceNew(s, d, resizable, i) ==
    /\ ~Live(objects, s)
    /\ registry[i].ref = 0
    /\ LET c == Dataspace_new(State, native, d, resizable, i)
           st2 == [reg |-> c.r.st.reg, objs |-> [c.r.st.objs EXCEPT ![s] = c.r.obj]]
       IN  /\ AfterAll(st2, net, [made EXCEPT ![i] = 1], c.nat,
                       [origin EXCEPT ![s] = [NoOrigin EXCEPT !.kind = "shape", !.dims = d,
                                                                !.resizable = resizable]])
           /\ last' = Returned("new", s, i, c.r.res, [dims |-> d, resizable |-> resizable])

\* obj.ndim(), obj.dims(), obj.maxdims(), obj.resizable()
Extent(s) ==
    /\ Live(objects, s)
    /\ objects[s].cap = "DataspaceID"
    /\ last' = Returned("extent", s, objects[s].id, OkResult,
                    [ndim |-> Dataspace_ndim(State, native, s),
                     dims |-> Dataspace_dims(State, native, s, host),
                     maxdims |-> Dataspace_maxdims(State, native, s, host),
                     resizable |-> Dataspace_resizable(State, native, s, host)])
    /\ UNCHANGED <<registry, objects, net, made, host, native, origin, lock, threads, applied>>

\* file.create_group(name), and the links made in the group
CreateGroup(i, name, members) ==
    /\ registry[i].ref = 0
    /\ LET c == GroupEntry(registry, native, name, members, i)
       IN  AfterAll([reg |-> c.reg, objs |-> objects], net, made, c.nat, origin)
    /\ last' = [Start EXCEPT !.op = "create"]

\* the identifier is closed by a path outside the objects (file.close()):
\* the objects that hold it keep it
Close(i) ==
    /\ registry[i].ref > 0
    /\ AfterAll([reg |-> [registry EXCEPT ![i] = FreeEntry], objs |-> objects], net, made,
                native,
                [s \in Slots |-> IF Live(objects, s) /\ objects[s].id = i
                                 THEN [origin[s] EXCEPT !.kind = "closed"] ELSE origin[s]])
    /\ last' = [Start EXCEPT !.op = "close"]

\* format!("{:?}", obj)
Fmt(s) ==
    /\ Live(objects, s)
    /\ last' = Returned("fmt", s, objects[s].id, OkResult,
                    fmt(objects[s].cap, State, native, s, host))
    /\ UNCHANGED <<registry, objects, net, made, host, native, origin, lock, threads, applied>>

\* what a step of a thread leaves alone
Sequential == <<net, made, last, host, native, origin>>

\* a thread makes a call
Begin(t, op, s, cap) ==
    /\ threads[t].op = "idle"
    /\ IF op = "from_id"
       THEN /\ ~Live(objects, s)
            /\ \A u \in Threads : threads[u].op # "from_id"
       ELSE /\ Live(objects, s)
            /\ cap = objects[s].cap
    /\ op = "size" => cap \in {"DatatypeID", "IntegerDatatypeID", "FloatDatatypeID"}
    /\ op = "incref" =>
          registry[1].ref + Cardinality({u \in Threads : threads[u].op = "incref"}) < MaxRef
    /\ threads' = [threads EXCEPT ![t] = [Idle EXCEPT !.op = op, !.slot = s, !.cap = cap,
                                                       !.arg = 1, !.pc = 1]]
    /\ UNCHANGED <<registry, objects, lock, applied>>
    /\ UNCHANGED Sequential

\* h5lock!: the thread waits until the lock is free or its own
Lock(t) ==
    /\ At(threads[t]) = "lock"
    /\ lock.owner \in {0, t}
    /\ lock' = [owner |-> t, depth |-> lock.depth + 1]
    /\ threads' = [threads EXCEPT ![t].pc = @ + 1]
    /\ UNCHANGED <<registry, objects, applied>>
    /\ UNCHANGED Sequential

\* the end of an h5lock! block
Unlock(t) ==
    /\ At(threads[t]) = "unlock"
    /\ lock' = IF lock.owner = t
               THEN (IF lock.depth > 1 THEN [lock EXCEPT !.depth = @ - 1] ELSE Unlocked)
               ELSE lock
    /\ threads' = [threads EXCEPT ![t].pc = @ + 1]
    /\ UNCHANGED <<registry, objects, applied>>
    /\ UNCHANGED Sequential

\* the thread enters a native call: the library reads its registry
Enter(t) ==
    /\ At(threads[t]) \in NativeCalls
    /\ ~threads[t].inside
    /\ LET i == Target(threads[t], objects)
       IN  /\ threads' = [threads EXCEPT ![t].inside = TRUE, ![t].seen = Entry(registry, i)]
           /\ applied' =
                 IF H5Iis_valid(registry, i) /\ At(threads[t]) = "H5Iinc_ref"
                 THEN [applied EXCEPT ![i] = @ + 1]
                 ELSE IF H5Iis_valid(registry, i) /\ At(threads[t]) = "H5Idec_ref"
                 THEN [applied EXCEPT ![i] = @ - 1]
                 ELSE applied
    /\ UNCHANGED <<registry, objects, lock>>
    /\ UNCHANGED Sequential

\* the native call returns: the library writes what it made of what it read
Exit(t) ==
    /\ threads[t].inside
    /\ LET th == threads[t]
           i == Target(th, objects)
           was == IF i \in UserIds THEN [registry EXCEPT ![i] = th.seen] ELSE registry
           now == CASE At(th) = "H5Iinc_ref" -> H5Iinc_ref(was, i)
                    [] At(th) = "H5Idec_ref" -> H5Idec_ref(was, i)
                    [] OTHER -> registry
       IN  /\ registry' = IF i \in UserIds /\ At(th) \in {"H5Iinc_ref", "H5Idec_ref"}
                          THEN [registry EXCEPT ![i] = now[i]] ELSE registry
           /\ threads' = [threads EXCEPT ![t].inside = FALSE, ![t].seen = FreeEntry,
                                          ![t].pc = @ + 1,
                                          ![t].val = IF Passed(th, registry, i) THEN "ok"
                                                     ELSE "fail"]
    /\ UNCHANGED <<objects, lock, applied>>
    /\ UNCHANGED Sequential

\* ensure!, `?`, `if`: the call returns here when the native call failed;
\* the h5lock! blocks it is in end with it
Check(t) ==
    /\ At(threads[t]) = "check"
    /\ IF threads[t].val = "ok"
       THEN /\ threads' = [threads EXCEPT ![t].pc = @ + 1]
            /\ lock' = lock
       ELSE /\ threads' = [threads EXCEPT ![t] = Idle]
            /\ lock' = IF lock.owner = t THEN Unlocked ELSE lock
    /\ UNCHANGED <<registry, objects, applied>>
    /\ UNCHANGED Sequential

\* Handle::decref: the identifier is not valid any more, so every handle
\* of it is invalidated
Invalidate(t) ==
    /\ At(threads[t]) = "invalidate"
    /\ objects' = IF threads[t].val = "fail"
                  THEN Handle_invalidate(objects, objects[threads[t].slot].id)
                  ELSE objects
    /\ threads' = [threads EXCEPT ![t].pc = @ + 1, ![t].val = "ok"]
    /\ UNCHANGED <<registry, lock, applied>>
    /\ UNCHANGED Sequential

\* the call returns; from_id returns the Object it made
Return(t) ==
    /\ threads[t].op # "idle"
    /\ At(threads[t]) \in {"make", "end"}
    /\ objects' = IF At(threads[t]) = "make"
                  THEN [objects EXCEPT ![threads[t].slot] =
                          [id |-> threads[t].arg, cap |-> threads[t].cap,
                           detail |-> T_from_id(threads[t].cap, registry, threads[t].arg).detail]]
                  ELSE objects
    /\ threads' = [threads EXCEPT ![t] = Idle]
    /\ UNCHANGED <<registry, lock, applied>>
    /\ UNCHANGED Sequential

----------------------------------------------------------------------------
(* Reference counting: property lists wrapped as test objects, as the      *)
(* tests of object.rs do                                                   *)

PropertyList == [ref |-> 1, type |-> "H5I_GENPROP_LST", cls |-> "H5T_NO_CLASS"]

Next ==
    \/ \E i \in UserIds : Create(i, PropertyList)
    \/ \E s \in Slots, i \in UserIds \cup {H5I_INVALID_HID} : FromId(s, i, "TestObjectID")
    \/ \E s \in Slots : Incref(s)
    \/ \E s \in Slots : Decref(s)
    \/ \E s \in Slots : Drop(s)

Spec == Init /\ [][Next]_vars

----------------------------------------------------------------------------
(* Construction: every capability over every class of identifier. from_id  *)
(* reads the registry entry of its argument alone, so one identifier is    *)
(* registered at a time; the other arguments are never registered.         *)

DispatchIds == {1}
DispatchSlots == {1, 2}
DispatchArgs == {H5I_INVALID_HID, H5P_DEFAULT, 1, 2, LockedId}

NextDispatch ==
    \/ \E i \in DispatchIds, e \in NewEntries : Create(i, e)
    \/ \E s \in DispatchSlots, i \in DispatchArgs, cap \in Capabilities : FromId(s, i, cap)
    \/ \E s \in DispatchSlots : Decref(s)
    \/ \E s \in DispatchSlots : Drop(s)
    \/ \E s \in DispatchSlots : Class(s)

SpecDispatch == Init /\ [][NextDispatch]_vars

----------------------------------------------------------------------------
(* Datatypes: every native scalar type on every target, two objects and    *)
(* two identifiers at a time                                               *)

DatatypeSlots == {1, 2}
DatatypeIds == {1, 2}

InitDatatype ==
    /\ Empty
    /\ host \in Hosts

NextDatatype ==
    \/ \E s \in DatatypeSlots, tp \in ScalarTypes, i \in DatatypeIds : ToDatatype(s, tp, i)
    \/ \E s \in DatatypeSlots : Layout(s)
    \/ \E s \in DatatypeSlots, t \in DatatypeSlots : Equal(s, t)
    \/ \E s \in DatatypeSlots : Decref(s)
    \/ \E s \in DatatypeSlots : Drop(s)

SpecDatatype == InitDatatype /\ [][NextDatatype]_vars

----------------------------------------------------------------------------
(* Dataspaces: shapes of every rank up to MaxRank, on a 32-bit and on a    *)
(* 64-bit target, one dataspace at a time                                  *)

\* the extents tried: small ones, two of two digits, and usize::MAX
Extents(h) == {0, 1, 2, MaxIx(h)} \cup {x \in {10, 12} : x <= MaxIx(h)}

RECURSIVE Tuples(_, _)
Tuples(n, E) ==
    IF n = 0 THEN {<<>>}
    ELSE {Append(d, x) : d \in Tuples(n - 1, E), x \in E}

Shapes(h) == UNION {Tuples(n, Extents(h)) : n \in 0..MaxRank}

InitDataspace ==
    /\ Empty
    /\ host \in {h \in Hosts : h.endian = "little"}

NextDataspace ==
    \/ \E d \in Shapes(host), r \in BOOLEAN : DataspaceNew(1, d, r, 1)
    \/ Extent(1)
    \/ Fmt(1)
    \/ Decref(1)
    \/ Drop(1)

SpecDataspace == InitDataspace /\ [][NextDataspace]_vars

----------------------------------------------------------------------------
(* Rendering: one identifier, made by each creation call, the object made  *)
(* with it and a second object built from it under every capability       *)

RenderSlots == {1, 2}
RenderShapes == {<<>>, <<3>>, <<1, 2>>}
RenderTypes == {"u32", "i8", "f64"}
RenderGroups == {"/a"}

InitRender ==
    /\ Empty
    /\ host \in {h \in Hosts : h.endian = "little"}

NextRender ==
    \/ Create(1, PropertyList)
    \/ \E name \in RenderGroups, members \in 0..2 : CreateGroup(1, name, members)
    \/ \E tp \in RenderTypes : ToDatatype(1, tp, 1)
    \/ \E d \in RenderShapes : DataspaceNew(1, d, FALSE, 1)
    \/ \E s \in RenderSlots, cap \in Capabilities : FromId(s, 1, cap)
    \/ \E s \in RenderSlots : Fmt(s)
    \/ \E s \in RenderSlots : Decref(s)
    \/ \E s \in RenderSlots : Drop(s)
    \/ Close(1)

SpecRender == InitRender /\ [][NextRender]_vars

----------------------------------------------------------------------------
(* Threads: two threads share one integer datatype, the object that came   *)
(* with it and the objects they build from its identifier                  *)

ThreadCaps == {"TestObjectID", "DatatypeID", "IntegerDatatypeID", "FloatDatatypeID"}
ThreadOps == {"incref", "decref", "refcount", "size"}

\* let obj = i32::to_datatype(), before the threads start
InitThreads ==
    /\ host = [endian |-> "little", width |-> 64]
    /\ LET c == to_datatype([reg |-> [i \in UserIds |-> FreeEntry],
                              objs |-> [s \in Slots |-> NoObject]],
                             [i \in UserIds |-> NoData], "i32", host, 1)
       IN  /\ registry = c.r.st.reg
           /\ objects = [c.r.st.objs EXCEPT ![1] = c.r.obj]
           /\ native = c.nat
    /\ net = [s \in Slots |-> 0]
    /\ made = [i \in UserIds |-> 0]
    /\ last = Start
    /\ origin = [s \in Slots |-> NoOrigin]
    /\ lock = Unlocked
    /\ threads = [t \in Threads |-> Idle]
    /\ applied = [i \in UserIds |-> 0]

NextThreads ==
    \/ \E t \in Threads, cap \in ThreadCaps : Begin(t, "from_id", 2, cap)
    \/ \E t \in Threads, op \in ThreadOps, s \in {1, 2} : Begin(t, op, s, objects[s].cap)
    \/ \E t \in Threads : Lock(t)
    \/ \E t \in Threads : Unlock(t)
    \/ \E t \in Threads : Enter(t)
    \/ \E t \in Threads : Exit(t)
    \/ \E t \in Threads : Check(t)
    \/ \E t \in Threads : Invalidate(t)
    \/ \E t \in Threads : Return(t)

SpecThreads == InitThreads /\ [][NextThreads]_vars

----------------------------------------------------------------------------
(* Claims about reference counting (specification Spec) *)

\* C1: an object built from a freshly created identifier, while it is valid
\* and the only wrapper that identifier ever had, reports
\* refcount() = 1 + (incref calls on it) - (decref calls on it); so 1 right
\* after construction, 2 after incref, 1 again after a following decref.
C1_RefcountCountsCalls ==
    \A s \in Slots :
        (Live(objects, s) /\ is_valid(s) /\ made[id(s)] = 1)
            => refcount(s) = 1 + net[s]

\* incref then decref on the only wrapper of an identifier: the count is 1 again
C1_Witness ==
    /\ last.op = "decref"
    /\ last.slot \in Slots
    /\ Live(objects, last.slot)
    /\ is_valid(last.slot)
    /\ made[id(last.slot)] = 1
    /\ net[last.slot] = 0
    /\ refcount(last.slot) = 1

\* C2: once decref has released the identifier (count driven to zero) the
\* object is invalid for good: is_valid() is false and refcount() is 0 in
\* every later state, whatever is created afterwards, and a further decref
\* changes neither the objects nor the registry.
C2_InvalidForGood ==
    [][\A s \in Slots :
        /\ (last'.op = "decref" /\ last'.slot = s /\ is_valid(s) /\ refcount(s) = 1)
              => (Live(objects, s)' /\ ~is_valid(s)' /\ refcount(s)' = 0)
        /\ (Live(objects, s) /\ ~is_valid(s) /\ Live(objects, s)')
              => (~is_valid(s)' /\ refcount(s)' = 0)
        /\ (last'.op = "decref" /\ last'.slot = s /\ ~is_valid(s))
              => (registry' = registry /\ objects' = objects)
      ]_vars

\* a decref on an object that was already invalid, while every identifier
\* (the one it was built from too) is registered again
C2_Witness ==
    /\ last.op = "decref"
    /\ last.id = H5I_INVALID_HID
    /\ \A i \in UserIds : registry[i].ref > 0
    /\ Live(objects, last.slot)
    /\ refcount(last.slot) = 0
    /\ ~is_valid(last.slot)

\* C3 as stated: a successful from_id adds one to the count of its identifier
C3_FromIdIncrements ==
    [][(last'.op = "from_id" /\ last'.res.kind = "Ok")
          => registry'[last'.id].ref = registry[last'.id].ref + 1]_vars

\* C3, amended: from_id on a valid identifier succeeds and leaves the
\* registry as it is: the Handle adopts the reference the identifier
\* already carries and takes none of its own.
C3_FromIdAdopts ==
    [][last'.op = "from_id"
          => /\ H5Iis_valid(registry, last'.id) => last'.res.kind = "Ok"
             /\ last'.res.kind = "Ok" =>
                    /\ registry' = registry
                    /\ objects'[last'.slot].id = last'.id]_vars

\* a second wrapper of an identifier whose count is still 1
C3_Witness ==
    /\ last.op = "from_id"
    /\ last.res.kind = "Ok"
    /\ made[last.id] = 2
    /\ registry[last.id].ref = 1
    /\ \E t \in Slots \ {last.slot} : Live(objects, t) /\ id(t) = last.id

\* C4: two objects holding one identifier see one count: incref through
\* either raises what both report by one (to 2 from 1), and dropping one of
\* them while the count is at least 2 lowers what the other reports by
\* exactly one and leaves it valid.
C4_SharedCount ==
    [][\A s \in Slots : \A t \in Linked(s) :
        /\ (last'.op = "incref" /\ last'.slot = s)
              => (refcount(s)' = refcount(s) + 1 /\ refcount(t)' = refcount(s)')
        /\ (last'.op = "drop" /\ last'.slot = s /\ refcount(s) >= 2)
              => (Live(objects, t)' /\ is_valid(t)' /\ refcount(t)' = refcount(t) - 1)
      ]_vars

\* obj2 built from obj's identifier, incref, drop(obj2): obj is valid with count 1
C4_Witness ==
    /\ last.op = "drop"
    /\ last.linked # {}
    /\ \A t \in last.linked :
          Live(objects, t) /\ is_valid(t) /\ id(t) = last.id /\ refcount(t) = 1

\* C5: when a decref releases an identifier, every object holding that
\* identifier reports the invalid sentinel as its id() from then on.
C5_AllHandlesInvalidated ==
    [][\A s \in Slots :
        /\ (last'.op = "decref" /\ last'.slot = s /\ is_valid(s) /\ refcount(s) = 1)
              => \A t \in Linked(s) \cup {s} :
                    Live(objects, t)' /\ id(t)' = H5I_INVALID_HID
        /\ (Live(objects, s) /\ id(s) = H5I_INVALID_HID /\ Live(objects, s)')
              => id(s)' = H5I_INVALID_HID
      ]_vars

\* a decref released an identifier that another object held too
C5_Witness ==
    /\ last.op = "decref"
    /\ last.detail = "released"
    /\ last.linked # {}
    /\ \A t \in last.linked \cup {last.slot} :
          Live(objects, t) /\ id(t) = H5I_INVALID_HID

\* every object holds the sentinel or an identifier that is registered
NoStaleHandle ==
    \A s \in Slots :
        Live(objects, s) => (id(s) = H5I_INVALID_HID \/ H5Iis_valid(registry, id(s)))

\* C6: drop decrements the count of the object's identifier by exactly one
\* when the object is valid and touches nothing in the registry when it is
\* not; and no object ever holds an identifier that has been released, so
\* no drop decrements an identifier released earlier.
C6_DropDecrementsOnce ==
    /\ []NoStaleHandle
    /\ [][\A s \in Slots : (last'.op = "drop" /\ last'.slot = s /\ Live(objects, s)) =>
            /\ ~Live(objects, s)'
            /\ \A i \in UserIds :
                  registry'[i].ref =
                      registry[i].ref - (IF is_valid(s) /\ i = id(s) THEN 1 ELSE 0)
         ]_vars

\* the drop of an object invalidated earlier, while every identifier (the
\* one it was built from too) is registered again: each keeps its count
C6_Witness ==
    /\ last.op = "drop"
    /\ last.id = H5I_INVALID_HID
    /\ \A i \in UserIds : registry[i].ref = 1

----------------------------------------------------------------------------
(* Claims about construction (specification SpecDispatch) *)

\* the native class of the argument of the last from_id call
ActualClass == get_id_type(registry, last.id)

\* C7: for a capability that allows Just one class or OneOf a list, from_id
\* fetches the class of the identifier first; on a mismatch it returns the
\* error that names the capability, the expected class(es) and the actual
\* class, having called neither the capability's from_id nor Handle::new,
\* and no object exists. For a capability that allows Any class it never
\* fetches the class: the capability's from_id is the first thing it calls.
C7_ClassCheckedFirst ==
    last.op = "from_id" =>
        LET at == allow_types(last.cap)
        IN  /\ at.tag \in {"Just", "OneOf"} =>
                /\ Head(last.calls) = "get_id_type"
                /\ ActualClass \notin at.cls =>
                      /\ last.res.kind = (IF at.tag = "Just" THEN "InvalidIdType"
                                          ELSE "InvalidIdTypeOneOf")
                      /\ last.res.name = type_name(last.cap)
                      /\ last.res.expected = at.cls
                      /\ last.res.got = ActualClass
                      /\ last.calls = <<"get_id_type">>
                      /\ ~Live(objects, last.slot)
                /\ ActualClass \in at.cls => last.calls[2] = "T::from_id"
            /\ at.tag = "Any" =>
                /\ Head(last.calls) = "T::from_id"
                /\ \A k \in 1..Len(last.calls) : last.calls[k] # "get_id_type"

\* a group is asked for and a registered identifier of another class is given
C7_Witness ==
    /\ last.op = "from_id"
    /\ last.cap = "GroupID"
    /\ last.res.kind = "InvalidIdType"
    /\ last.res.got \in IdTypes
    /\ H5Iis_valid(registry, last.id)

\* C8: a from_id that returns an error leaves every object and the whole
\* registry (counts and validity) as they were: no object, hence no Handle,
\* comes into being.
C8_FailureLeavesNoTrace ==
    [][(last'.op = "from_id" /\ last'.res.kind # "Ok")
          => (registry' = registry /\ objects' = objects)]_vars

\* the capability's constructor refuses an identifier that another object
\* holds: the identifier is valid as before, with its one reference
C8_Witness ==
    /\ last.op = "from_id"
    /\ last.res.kind = "UnsupportedDatatype"
    /\ ~Live(objects, last.slot)
    /\ \E t \in Slots : Live(objects, t) /\ id(t) = last.id /\ refcount(t) = 1

\* C9: from_id of the invalid sentinel, of H5P_DEFAULT and of a predefined
\* library-owned identifier returns an error, whatever the capability.
C9_InvalidIdRejected ==
    (last.op = "from_id" /\ last.id \in {H5I_INVALID_HID, H5P_DEFAULT, LockedId})
        => (last.res.kind # "Ok" /\ ~Live(objects, last.slot))

\* the sentinel is refused for a capability that allows any class
C9_Witness ==
    /\ last.op = "from_id"
    /\ last.id = H5I_INVALID_HID
    /\ last.cap = "TestObjectID"
    /\ last.res.kind = "InvalidHandleId"

\* C10: DatatypeID::from_id and Datatype::class yield Integer exactly for
\* H5T_INTEGER and Float exactly for H5T_FLOAT; H5T_NO_CLASS and
\* H5T_NCLASSES give the "Invalid datatype class" error, every other class
\* the "Unsupported datatype" error naming it; no other class gives a
\* Datatype.
C10_Classification ==
    (\/ last.op = "class"
     \/ last.op = "from_id" /\ last.cap = "DatatypeID" /\ last.tcls # "-")
        => /\ last.detail = "Integer" <=> last.tcls = "H5T_INTEGER"
           /\ last.detail = "Float" <=> last.tcls = "H5T_FLOAT"
           /\ last.tcls \in {"H5T_NO_CLASS", "H5T_NCLASSES"}
                 <=> last.res.kind = "InvalidDatatypeClass"
           /\ last.tcls \notin {"H5T_INTEGER", "H5T_FLOAT", "H5T_NO_CLASS", "H5T_NCLASSES"}
                 <=> (last.res.kind = "UnsupportedDatatype" /\ last.res.got = last.tcls)
           /\ last.res.kind = "Ok" => last.detail \in {"Integer", "Float"}
           /\ last.tcls \in {"H5T_INTEGER", "H5T_FLOAT"}
                 => last.res.kind \in {"Ok", "InvalidHandleId"}

\* a copy of a reference datatype is refused as unsupported
C10_Witness ==
    /\ last.op = "from_id"
    /\ last.cap = "DatatypeID"
    /\ last.tcls = "H5T_REFERENCE"
    /\ last.res.kind = "UnsupportedDatatype"
    /\ last.res.got = "H5T_REFERENCE"

----------------------------------------------------------------------------
(* Claims about datatypes (specification SpecDatatype) *)

\* the scalar type a valid object was made from
Scalar(s) == origin[s].tp

FromScalar(s) == Live(objects, s) /\ origin[s].kind = "scalar"

\* size_of::<T>() on the target
ByteWidth(tp, h) ==
    CASE tp \in {"bool", "i8", "u8"} -> 1
      [] tp \in {"i16", "u16"} -> 2
      [] tp \in {"i32", "u32", "f32"} -> 4
      [] tp \in {"i64", "u64", "f64"} -> 8
      [] tp \in {"isize", "usize"} -> h.width \div 8

\* C11 as stated: the datatypes of two native scalar types are equal when
\* the two types are the same type and are not equal when they differ
C11_EqualIffSameType ==
    (last.op = "eq" /\ is_valid(last.slot) /\ is_valid(last.out.other))
        => (last.out.eq <=> Scalar(last.slot) = Scalar(last.out.other))

\* the native scalar types that share a row of descriptors on the target
SameDescriptor(a, b, h) ==
    \/ a = b
    \/ {a, b} = {"bool", "u8"}
    \/ {a, b} = {"usize", IF h.width = 32 THEN "u32" ELSE "u64"}
    \/ {a, b} = {"isize", IF h.width = 32 THEN "i32" ELSE "i64"}

\* C11, amended: the datatypes of two native scalar types are equal exactly
\* when both types are mapped to the same predefined descriptor: the same
\* type, bool and u8, usize and the unsigned integer of pointer width,
\* isize and the signed integer of pointer width; every other pair is
\* unequal, and the comparison is false when the native check fails because
\* an operand has been released.
C11_EqualIffSameDescriptor ==
    last.op = "eq" =>
        IF is_valid(last.slot) /\ is_valid(last.out.other)
        THEN last.out.eq <=> SameDescriptor(Scalar(last.slot), Scalar(last.out.other), host)
        ELSE ~last.out.eq

\* bool and u8 compare equal
C11_Witness ==
    /\ last.op = "eq"
    /\ is_valid(last.slot) /\ is_valid(last.out.other)
    /\ Scalar(last.slot) = "bool"
    /\ Scalar(last.out.other) = "u8"
    /\ last.out.eq

\* C12: to_datatype succeeds with a fresh identifier holding one reference,
\* and the datatype it returns classifies as Integer for bool and the
\* integer types and as Float for f32 and f64, with precision 8 * width,
\* size = width, offset 0, exactly one of is_be / is_le true and that the
\* one of the target's byte order, and for integers is_signed exactly for
\* i8, i16, i32, i64 and isize.
C12_ScalarLayout ==
    /\ last.op = "to_datatype" =>
          /\ last.res.kind = "Ok"
          /\ Live(objects, last.slot) /\ is_valid(last.slot)
          /\ id(last.slot) = last.id /\ last.id # LockedId
          /\ made[last.id] = 1 /\ refcount(last.slot) = 1
          /\ \A t \in Slots \ {last.slot} : Live(objects, t) => id(t) # last.id
    /\ (last.op = "layout" /\ is_valid(last.slot) /\ FromScalar(last.slot)) =>
          LET tp == Scalar(last.slot)
              w == ByteWidth(tp, host)
          IN  /\ last.res.kind = "Ok"
              /\ last.out.class = (IF tp \in {"f32", "f64"} THEN "Float" ELSE "Integer")
              /\ last.out.precision = 8 * w
              /\ last.out.size = w
              /\ last.out.offset = 0
              /\ last.out.is_be = (host.endian = "big")
              /\ last.out.is_le = (host.endian = "little")
              /\ last.out.is_be # last.out.is_le
              /\ last.out.class = "Integer" =>
                    (last.out.is_signed <=> tp \in {"i8", "i16", "i32", "i64", "isize"})

\* isize on a big-endian 32-bit target: a signed 32-bit big-endian integer
C12_Witness ==
    /\ last.op = "layout"
    /\ is_valid(last.slot) /\ FromScalar(last.slot)
    /\ Scalar(last.slot) = "isize"
    /\ host = [endian |-> "big", width |-> 32]
    /\ last.out.precision = 32 /\ last.out.is_signed /\ last.out.is_be

----------------------------------------------------------------------------
(* Claims about dataspaces (specification SpecDataspace) *)

\* the shape a valid dataspace was made from, all extents concrete
FromShape(s) ==
    /\ Live(objects, s) /\ is_valid(s)
    /\ origin[s].kind = "shape"
    /\ \A k \in 1..Len(origin[s].dims) : origin[s].dims[k] # as_usize(H5S_UNLIMITED, host)

AllUnlimited(maxdims) ==
    \A k \in 1..Len(maxdims) : maxdims[k] = as_usize(H5S_UNLIMITED, host)

\* resizable() against the maxima the library holds
ResizableIffUnlimitedAxis(s) ==
    last.out.resizable <=>
        \E k \in 1..Len(native[id(s)].maxdims) : native[id(s)].maxdims[k] = H5S_UNLIMITED

Description(text) == SubSeq(text, Len("<HDF5 dataspace: ") + 1, Len(text) - 1)

CharAt(str, k) == SubSeq(str, k, k)

DigitValue(c) ==
    CASE c = "0" -> 0 [] c = "1" -> 1 [] c = "2" -> 2 [] c = "3" -> 3 [] c = "4" -> 4
      [] c = "5" -> 5 [] c = "6" -> 6 [] c = "7" -> 7 [] c = "8" -> 8 [] c = "9" -> 9
      [] OTHER -> -1

\* the extents read back from a tuple: the numbers between the commas,
\* from position k on, `cur` being the number under way (-1: none)
RECURSIVE ReadExtents(_, _, _, _)
ReadExtents(str, k, cur, acc) ==
    IF k > Len(str) THEN (IF cur >= 0 THEN Append(acc, cur) ELSE acc)
    ELSE LET c == CharAt(str, k)
         IN  IF DigitValue(c) >= 0
             THEN ReadExtents(str, k + 1, (IF cur < 0 THEN 0 ELSE cur) * 10 + DigitValue(c), acc)
             ELSE IF c = ","
             THEN ReadExtents(str, k + 1, -1, IF cur >= 0 THEN Append(acc, cur) ELSE acc)
             ELSE ReadExtents(str, k + 1, cur, acc)

Commas(str) == {k \in 1..Len(str) : CharAt(str, k) = ","}

\* C15: the description of a valid dataspace is the tuple of its extents in
\* axis order: "()" for rank 0, "(n,)" for rank 1, and for rank k >= 2 the
\* extents separated by ", " with no trailing comma, as in "(1, 2)"; the
\* number of extents written equals ndim().
C15_TupleSyntax ==
    (last.op = "fmt" /\ Live(objects, last.slot) /\ is_valid(last.slot)
       /\ origin[last.slot].kind = "shape") =>
        LET d == origin[last.slot].dims
            desc == Description(last.out)
            n == Len(desc)
        IN  /\ last.out = "<HDF5 dataspace: " \o desc \o ">"
            /\ CharAt(desc, 1) = "(" /\ CharAt(desc, n) = ")"
            /\ ReadExtents(desc, 1, -1, <<>>) = d
            /\ Len(ReadExtents(desc, 1, -1, <<>>)) = Dataspace_ndim(State, native, last.slot)
            /\ Len(d) = 0 => desc = "()"
            /\ Len(d) = 1 => desc = "(" \o Decimal(d[1]) \o ",)"
            /\ Len(d) >= 2 =>
                  /\ Cardinality(Commas(desc)) = Len(d) - 1
                  /\ \A k \in Commas(desc) :
                        /\ CharAt(desc, k + 1) = " "
                        /\ DigitValue(CharAt(desc, k - 1)) >= 0
                        /\ DigitValue(CharAt(desc, k + 2)) >= 0
                  /\ DigitValue(CharAt(desc, n - 1)) >= 0
            /\ d = <<1, 2>> => desc = "(1, 2)"
            /\ d = <<10, 12>> => desc = "(10, 12)"

\* a dataspace of extents (1, 2) renders as in the test
C15_Witness ==
    /\ last.op = "fmt"
    /\ Live(objects, last.slot) /\ is_valid(last.slot)
    /\ origin[last.slot].dims = <<1, 2>>
    /\ last.out = "<HDF5 dataspace: (1, 2)>"

----------------------------------------------------------------------------
(* Claims about rendering (specification SpecRender) *)

\* C14 as stated: every object renders by one rule: under the type_name()
\* of its capability, as "invalid id" when it is not valid, with the
\* describe() of its capability when it is valid, and as the bare name
\* when that is empty
C14_UniformRendering ==
    last.op = "fmt" =>
        LET s == last.slot
            cap == objects[s].cap
            desc == describe(cap, State, native, s, host)
        IN  IF ~is_valid(s)
            THEN last.out = "<HDF5 " \o type_name(cap) \o ": invalid id>"
            ELSE IF desc = ""
                 THEN last.out = "<HDF5 " \o type_name(cap) \o ">"
                 ELSE last.out = "<HDF5 " \o type_name(cap) \o ": " \o desc \o ">"

\* the name an object renders under
RenderName(cap) ==
    IF cap \in {"DatatypeID", "IntegerDatatypeID", "FloatDatatypeID"} THEN "datatype"
    ELSE type_name(cap)

\* the object that came with the creation of identifier i
Maker(i) ==
    CHOOSE t \in Slots :
        Live(objects, t) /\ objects[t].id = i /\ origin[t].kind \in {"scalar", "shape"}

ScalarText(tp) ==
    CASE tp = "u32" -> "32-bit unsigned integer"
      [] tp = "i8" -> "8-bit signed integer"
      [] tp = "f64" -> "64-bit float"

ShapeText(d) ==
    CASE d = <<>> -> "()"
      [] d = <<3>> -> "(3,)"
      [] d = <<1, 2>> -> "(1, 2)"

MembersText(n) ==
    CASE n = 0 -> "empty"
      [] n = 1 -> "1 member"
      [] n = 2 -> "2 members"

\* the description a valid object renders with
RenderDesc(s) ==
    LET cap == objects[s].cap
    IN  CASE cap = "TestObjectID" -> "foo"
          [] cap = "OneOfObjectID" -> ""
          [] cap = "DataspaceID" -> ShapeText(origin[Maker(id(s))].dims)
          [] cap = "GroupID" -> "\"/a\" (" \o MembersText(native[id(s)].members) \o ")"
          [] OTHER -> ScalarText(origin[Maker(id(s))].tp)

StartsWith(str, prefix) == SubSeq(str, 1, Len(prefix)) = prefix

\* C14, amended: rendering never fails and always gives "<HDF5 NAME ...>".
\* An object that is not valid (released by decref, or closed from outside)
\* renders as "<HDF5 NAME: invalid id>", a valid one as "<HDF5 NAME: DESC>",
\* or "<HDF5 NAME>" when DESC is empty. NAME is the type_name() of the
\* capability and DESC its describe(), except for the aliases that have a
\* formatter of their own: datatypes, integer datatypes and float datatypes
\* all render under the name "datatype", with "<precision>-bit signed
\* integer", "<precision>-bit unsigned integer" or "<precision>-bit float"
\* as DESC, and a group renders with its quoted path and the count of its
\* members ("empty", "1 member", "n members") as DESC.
C14_RenderingByAlias ==
    last.op = "fmt" =>
        LET s == last.slot
            name == RenderName(objects[s].cap)
        IN  /\ StartsWith(last.out, "<HDF5 " \o name)
            /\ CharAt(last.out, Len(last.out)) = ">"
            /\ ~is_valid(s) => last.out = "<HDF5 " \o name \o ": invalid id>"
            /\ (is_valid(s) /\ origin[s].kind # "closed") =>
                  IF RenderDesc(s) = ""
                  THEN last.out = "<HDF5 " \o name \o ">"
                  ELSE last.out = "<HDF5 " \o name \o ": " \o RenderDesc(s) \o ">"

\* an integer datatype whose identifier was closed from outside renders
\* under the name "datatype"
C14_Witness ==
    /\ last.op = "fmt"
    /\ objects[last.slot].cap = "IntegerDatatypeID"
    /\ origin[last.slot].kind = "closed"
    /\ ~is_valid(last.slot)
    /\ last.out = "<HDF5 datatype: invalid id>"

----------------------------------------------------------------------------
(* Claims about threads (specification SpecThreads) *)

\* the count the shared identifier starts with
InitialCount == 1

InsideNative == {t \in Threads : threads[t].inside}

\* C16: a thread is inside a call of the native registry (the class
\* pre-check of from_id too) only while it holds the process-wide lock, so
\* at most one thread is inside such a call at any time; and when every
\* call has returned, the count of the identifier is its initial count
\* plus the increments minus the decrements applied while it was valid.
C16_Serialized ==
    /\ \A t \in InsideNative : lock.owner = t /\ lock.depth >= 1
    /\ Cardinality(InsideNative) <= 1
    /\ (\A t \in Threads : threads[t].op = "idle")
          => /\ registry[1].ref = InitialCount + applied[1]
             /\ lock = Unlocked

\* one thread is inside H5Iinc_ref while the other, in a decref, waits for
\* the lock
C16_Witness ==
    \E t \in Threads, u \in Threads :
        /\ t # u
        /\ threads[t].inside /\ At(threads[t]) = "H5Iinc_ref"
        /\ threads[u].op = "decref" /\ At(threads[u]) = "lock"
        /\ lock.owner = t

====
